---- MODULE Spec2Model ----
(***************************************************************************)
(* Fleet Scheduler: the weekly allocation store (src/src/database.py) and  *)
(* the shortage classification of the presentation layer (src/app.py).     *)
(*                                                                         *)
(* Dates are proleptic Gregorian ordinals, as datetime.date.toordinal()    *)
(* numbers them (0001-01-01 is day 1, a Monday).  A TEXT column holding a  *)
(* date is the ISO string str(date) produces, modelled as the sequence of  *)
(* its character codes; SQL comparisons on such columns compare strings.   *)
(***************************************************************************)
EXTENDS Integers, Sequences, FiniteSets, Bags, TLC

VARIABLES
    device_types,        \* table device_types: set of rows
    projects,            \* table projects: set of rows
    deployments,         \* table deployments: set of rows
    weekly_allocations,  \* table weekly_allocations: set of rows
    serial,              \* the SERIAL sequence of each table (last value handed out)
    last,                \* the last database call, if it is one on record
    conn,                \* the pooled connection: its open transaction, if any
    grid,                \* one call of _week_mondays: arguments and returned list
    usage,               \* one usage row and the classes the two views give it
    threads,             \* the threads inside a database call, each on a
                         \* connection of its own: a bag of their positions
                         \* and transactions
    expected             \* what two calls begun together leave when they run
                         \* one after the other, in either order

vars == <<device_types, projects, deployments, weekly_allocations, serial, last,
          conn, grid, usage, threads, expected>>

(***************************************************************************)
(* Bounds of the model.                                                    *)
(***************************************************************************)
\* _week_mondays is explored on every pair of days of a window of GridSpan
\* days that starts on day FirstDate (738883 is 2023-12-29, a Friday)
GridSpan == 24
FirstDate == 738883
\* the database calls draw their dates from NDates sample dates, DateStep days
\* apart, the first being FirstDate
NDates == 3
DateStep == 3
\* no more than this many rows are ever inserted into weekly_allocations
MaxAllocations == 4
\* the usage rows classified have total_fleet and total_in_use up to these
MaxFleet == 100
MaxInUse == 100

(***************************************************************************)
(* datetime.date                                                           *)
(***************************************************************************)
\* date.weekday(): Monday is 0, Sunday is 6
Weekday(d) == (d + 6) % 7

IsLeap(y) == y % 4 = 0 /\ (y % 100 # 0 \/ y % 400 = 0)

DaysInMonth(y, m) ==
    IF m = 2 THEN (IF IsLeap(y) THEN 29 ELSE 28)
    ELSE IF m \in {4, 6, 9, 11} THEN 30 ELSE 31

RECURSIVE DaysBeforeMonth(_, _)
DaysBeforeMonth(y, m) ==
    IF m = 1 THEN 0 ELSE DaysBeforeMonth(y, m - 1) + DaysInMonth(y, m - 1)

\* datetime._ord2ymd: ordinal -> <<year, month, day>>
Ord2Ymd(ord) ==
    LET n0   == ord - 1
        n400 == n0 \div 146097
        r400 == n0 % 146097
        n100 == r400 \div 36524
        r100 == r400 % 36524
        n4   == r100 \div 1461
        r4   == r100 % 1461
        n1   == r4 \div 365
        n    == r4 % 365
        year == n400 * 400 + 1 + n100 * 100 + n4 * 4 + n1
    IN  IF n1 = 4 \/ n100 = 4
        THEN <<year - 1, 12, 31>>
        ELSE LET m0   == (n + 50) \div 32
                 prec == DaysBeforeMonth(year, m0)
                 month == IF prec > n THEN m0 - 1 ELSE m0
                 before == DaysBeforeMonth(year, month)
             IN  <<year, month, n - before + 1>>

\* the character code of decimal digit k
Digit(k) == 48 + k

\* date.isoformat(): "%04d-%02d-%02d", as character codes
isoformat(d) ==
    LET ymd == Ord2Ymd(d)
        y == ymd[1]
        m == ymd[2]
        dd == ymd[3]
    IN  << Digit((y \div 1000) % 10), Digit((y \div 100) % 10),
           Digit((y \div 10) % 10), Digit(y % 10), 45,
           Digit(m \div 10), Digit(m % 10), 45,
           Digit(dd \div 10), Digit(dd % 10) >>

\* comparison of two TEXT values: lexicographic on character codes
RECURSIVE TextLess(_, _)
TextLess(a, b) ==
    IF b = <<>> THEN FALSE
    ELSE IF a = <<>> THEN TRUE
    ELSE IF Head(a) # Head(b) THEN Head(a) < Head(b)
    ELSE TextLess(Tail(a), Tail(b))

TextLeq(a, b) == a = b \/ TextLess(a, b)

(***************************************************************************)
(* _week_mondays                                                           *)
(***************************************************************************)
\* the while loop of _week_mondays: append monday, advance by 7 days
RECURSIVE WeekLoop(_, _, _)
WeekLoop(monday, end, weeks) ==
    IF monday <= end
    THEN WeekLoop(monday + 7, end, Append(weeks, monday))
    ELSE weeks

\* the grid starting on the start date itself
StartItself(start) == start

\* start - timedelta(days=start.weekday())
MondayOf(start) == start - Weekday(start)

\* the loop stopping at monday < end: a week that begins on `end` is dropped
_week_mondays_before_end(start, end) == WeekLoop(MondayOf(start), end - 1, <<>>)

_week_mondays(start, end) == WeekLoop(MondayOf(start), end, <<>>)

(***************************************************************************)
(* Inputs of the database calls.                                           *)
(***************************************************************************)
SampleDates == {FirstDate + DateStep * i : i \in 0 .. NDates - 1}

LastDate == FirstDate + DateStep * (NDates - 1)

GridDays == FirstDate .. FirstDate + GridSpan - 1

\* the ISO text of every day from the Monday before the first sample date to
\* the last sample date, computed once
DateTexts == [d \in MondayOf(FirstDate) .. LastDate |-> isoformat(d)]

\* str(date)
DateStr(d) == IF d \in DOMAIN DateTexts THEN DateTexts[d] ELSE isoformat(d)

Counts == {3, 5}

\* the device types an operator enters: name ("M", "O"), total_fleet,
\* under_repair
DeviceInputs == {<< <<77>>, 10, 1 >>, << <<79>>, 4, 0 >>}

ProjectIds == {1}

AllocationIds == 1 .. MaxAllocations

(***************************************************************************)
(* The connection: a transaction over the four tables.                     *)
(*   db        the tables as the open transaction sees them                *)
(*   committed the tables as committed                                     *)
(*   serial    the sequences (nextval is not undone by a rollback)         *)
(*   n         statements sent so far; statement number failAt fails in    *)
(*             the persistence layer (0: none does)                        *)
(***************************************************************************)
Tables == [device_types |-> device_types, projects |-> projects,
           deployments |-> deployments, weekly_allocations |-> weekly_allocations]

\* a pooled connection with no transaction open.  status is libpq's
\* transaction status: "idle", "intrans" (a transaction is open) or "inerror"
\* (a statement of the open transaction was rejected by the server)
Idle == [status |-> "idle", db |-> <<>>]

\* _pool().getconn(): the pooled connection; a transaction left open on it
\* still holds its uncommitted writes
getconn(failAt) ==
    [db |-> IF conn.status = "idle" THEN Tables ELSE conn.db,
     status |-> conn.status, committed |-> Tables, serial |-> serial,
     raised |-> FALSE, n |-> 0, failAt |-> failAt, ret |-> 0]

\* the statement about to be sent is the one that fails before it reaches the
\* server (the transaction stays as it is)
Fails(st) == st.n + 1 = st.failAt

RaiseClient(st) == [st EXCEPT !.raised = TRUE, !.n = @ + 1]

\* the server rejects a statement: the transaction is aborted
RaiseServer(st) == [st EXCEPT !.raised = TRUE, !.n = @ + 1, !.status = "inerror"]

\* a statement cannot run: an exception was raised before it, it is the one
\* that fails, or the transaction is aborted
Blocked(st) == st.raised \/ Fails(st) \/ st.status = "inerror"

Refuse(st) ==
    IF st.raised THEN st
    ELSE IF Fails(st) THEN RaiseClient(st)
    ELSE RaiseServer(st)

\* the statement ran: the transaction is open and holds the new tables
Ran(st, db) == [st EXCEPT !.db = db, !.n = @ + 1, !.status = "intrans"]

\* conn.commit(): COMMIT of an aborted transaction rolls it back
commit(st) ==
    IF st.raised THEN st
    ELSE IF Fails(st) THEN RaiseClient(st)
    ELSE IF st.status = "inerror"
    THEN [st EXCEPT !.db = st.committed, !.status = "idle", !.n = @ + 1]
    ELSE [st EXCEPT !.committed = st.db, !.status = "idle", !.n = @ + 1]

\* a rollback that is not carried out
rollback_skipped(st) == st

\* conn.rollback()
rollback(st) == [st EXCEPT !.db = st.committed, !.status = "idle"]

\* _pool().putconn(conn): the pool rolls back a connection that is returned
\* with a transaction still open
putconn(st) == IF st.status # "idle" THEN rollback(st) ELSE st

\* get_connection: except Exception: conn.rollback(); raise / finally: putconn
get_connection(st) == putconn(IF st.raised THEN rollback(st) ELSE st)

Exists(table, id) == \E r \in table : r.id = id

(***************************************************************************)
(* Statements.                                                             *)
(***************************************************************************)
\* INSERT INTO device_types (name, total_fleet, under_repair, color) ...
\* RETURNING id; name is UNIQUE
InsertDeviceType(st, name, total_fleet, under_repair) ==
    IF Blocked(st) THEN Refuse(st)
    ELSE LET id  == st.serial.device_types + 1
             s1  == [st EXCEPT !.serial.device_types = id]
             row == [id |-> id, name |-> name, total_fleet |-> total_fleet,
                     under_repair |-> under_repair]
         IN  IF \E r \in st.db.device_types : r.name = name
             THEN RaiseServer(s1)
             ELSE [Ran(s1, [st.db EXCEPT !.device_types = @ \cup {row}])
                       EXCEPT !.ret = id]

\* UPDATE device_types SET name, total_fleet, under_repair, color WHERE id
UpdateDeviceType(st, id, name, total_fleet, under_repair) ==
    IF Blocked(st) THEN Refuse(st)
    ELSE IF \E r \in st.db.device_types :
                r.id # id /\ r.name = name /\ Exists(st.db.device_types, id)
    THEN RaiseServer(st)
    ELSE Ran(st, [st.db EXCEPT !.device_types =
                    {IF r.id = id
                     THEN [r EXCEPT !.name = name, !.total_fleet = total_fleet,
                                    !.under_repair = under_repair]
                     ELSE r : r \in @}])

\* the delete going through whether or not a deployment references the row
DeleteDeviceTypeUnchecked(st, id) ==
    IF Blocked(st) THEN Refuse(st)
    ELSE Ran(st, [st.db EXCEPT !.device_types = {r \in @ : r.id # id}])

\* DELETE FROM device_types WHERE id; deployments.device_type_id references
\* device_types(id) with no ON DELETE action
DeleteDeviceType(st, id) ==
    IF Blocked(st) THEN Refuse(st)
    ELSE IF Exists(st.db.device_types, id)
            /\ \E d \in st.db.deployments : d.device_type_id = id
    THEN RaiseServer(st)
    ELSE Ran(st, [st.db EXCEPT !.device_types = {r \in @ : r.id # id}])

\* INSERT INTO projects (...) RETURNING id
InsertProject(st) ==
    IF Blocked(st) THEN Refuse(st)
    ELSE LET id == st.serial.projects + 1
             s1 == [st EXCEPT !.serial.projects = id]
         IN  [Ran(s1, [st.db EXCEPT !.projects = @ \cup {[id |-> id]}])
                  EXCEPT !.ret = id]

\* a foreign key without ON DELETE CASCADE that lets the delete go through
NoCascade(rows, gone) == rows

\* the rows the ON DELETE CASCADE of weekly_allocations.deployment_id leaves
\* when the deployments `gone` are deleted
CascadeAllocations(rows, gone) ==
    {a \in rows : ~ \E d \in gone : a.deployment_id = d.id}

\* the delete cascading to the deployments only
DeleteProjectShallow(st, id) ==
    IF Blocked(st) THEN Refuse(st)
    ELSE LET gone == {d \in st.db.deployments : d.project_id = id}
         IN  Ran(st, [st.db EXCEPT !.projects = {r \in @ : r.id # id},
                                   !.deployments = @ \ gone])

\* DELETE FROM projects WHERE id; deployments.project_id is ON DELETE CASCADE
DeleteProject(st, id) ==
    IF Blocked(st) THEN Refuse(st)
    ELSE LET gone == {d \in st.db.deployments : d.project_id = id}
         IN  Ran(st, [st.db EXCEPT
                        !.projects = {r \in @ : r.id # id},
                        !.deployments = @ \ gone,
                        !.weekly_allocations = CascadeAllocations(@, gone)])

\* INSERT INTO deployments (...) VALUES (...) RETURNING id
\* project_id REFERENCES projects(id), device_type_id REFERENCES device_types(id)
InsertDeployment(st, project_id, venue, start_date, end_date, device_type_id, default_device_count) ==
    IF Blocked(st) THEN Refuse(st)
    ELSE LET id  == st.serial.deployments + 1
             s1  == [st EXCEPT !.serial.deployments = id]
             row == [id |-> id, project_id |-> project_id, venue |-> venue,
                     start_date |-> DateStr(start_date),
                     end_date |-> DateStr(end_date),
                     device_type_id |-> device_type_id,
                     default_device_count |-> default_device_count]
         IN  IF Exists(st.db.projects, project_id)
                /\ Exists(st.db.device_types, device_type_id)
             THEN [Ran(s1, [st.db EXCEPT !.deployments = @ \cup {row}])
                       EXCEPT !.ret = id]
             ELSE RaiseServer(s1)

\* the row with the columns named in kwargs set to their values
SetColumns(row, kwargs) ==
    [c \in DOMAIN row |-> IF c \in DOMAIN kwargs THEN kwargs[c] ELSE row[c]]

\* the update also resetting the deployment's rows to a new default count
UpdateDeploymentResync(st, id, kwargs) ==
    IF Blocked(st) THEN Refuse(st)
    ELSE Ran(st, [st.db EXCEPT
                    !.deployments =
                        {IF d.id = id THEN SetColumns(d, kwargs) ELSE d : d \in @},
                    !.weekly_allocations =
                        {IF a.deployment_id = id
                            /\ "default_device_count" \in DOMAIN kwargs
                         THEN [a EXCEPT !.device_count =
                                            kwargs["default_device_count"]]
                         ELSE a : a \in @}])

\* UPDATE deployments SET {k = %s for k in kwargs} WHERE id
UpdateDeployment(st, id, kwargs) ==
    IF Blocked(st) THEN Refuse(st)
    ELSE IF Exists(st.db.deployments, id)
            /\ "device_type_id" \in DOMAIN kwargs
            /\ ~ Exists(st.db.device_types, kwargs["device_type_id"])
    THEN RaiseServer(st)
    ELSE Ran(st, [st.db EXCEPT !.deployments =
                    {IF d.id = id THEN SetColumns(d, kwargs) ELSE d : d \in @}])

\* DELETE FROM deployments WHERE id; weekly_allocations.deployment_id is
\* ON DELETE CASCADE
DeleteDeployment(st, id) ==
    IF Blocked(st) THEN Refuse(st)
    ELSE LET gone == {d \in st.db.deployments : d.id = id}
         IN  Ran(st, [st.db EXCEPT
                        !.deployments = @ \ gone,
                        !.weekly_allocations = CascadeAllocations(@, gone)])

\* INSERT INTO weekly_allocations (deployment_id, week_start, device_count)
\* deployment_id REFERENCES deployments(id)
InsertAllocation(st, deployment_id, monday, device_count) ==
    IF Blocked(st) THEN Refuse(st)
    ELSE LET id  == st.serial.weekly_allocations + 1
             s1  == [st EXCEPT !.serial.weekly_allocations = id]
             row == [id |-> id, deployment_id |-> deployment_id,
                     week_start |-> DateStr(monday),
                     device_count |-> device_count]
         IN  IF Exists(st.db.deployments, deployment_id)
             THEN Ran(s1, [st.db EXCEPT !.weekly_allocations = @ \cup {row}])
             ELSE RaiseServer(s1)

\* for monday in _week_mondays(start_date, end_date): cur.execute(INSERT ...)
RECURSIVE InsertWeeks(_, _, _, _)
InsertWeeks(st, deployment_id, weeks, device_count) ==
    IF weeks = <<>> THEN st
    ELSE InsertWeeks(InsertAllocation(st, deployment_id, Head(weeks), device_count),
                     deployment_id, Tail(weeks), device_count)

\* the update without its WHERE clause
UpdateEveryAllocation(st, allocation_id, device_count) ==
    IF Blocked(st) THEN Refuse(st)
    ELSE Ran(st, [st.db EXCEPT !.weekly_allocations =
                    {[a EXCEPT !.device_count = device_count] : a \in @}])

\* UPDATE weekly_allocations SET device_count = %s WHERE id = %s
UpdateAllocation(st, allocation_id, device_count) ==
    IF Blocked(st) THEN Refuse(st)
    ELSE Ran(st, [st.db EXCEPT !.weekly_allocations =
                    {IF a.id = allocation_id
                     THEN [a EXCEPT !.device_count = device_count]
                     ELSE a : a \in @}])

\* the update with week_start > %s
UpdateAllocationsAfter(st, deployment_id, new_count, from_text) ==
    IF Blocked(st) THEN Refuse(st)
    ELSE Ran(st, [st.db EXCEPT !.weekly_allocations =
                    {IF a.deployment_id = deployment_id
                        /\ TextLess(from_text, a.week_start)
                     THEN [a EXCEPT !.device_count = new_count]
                     ELSE a : a \in @}])

\* UPDATE weekly_allocations SET device_count = %s
\* WHERE deployment_id = %s AND week_start >= %s      (week_start is TEXT)
UpdateAllocationsFrom(st, deployment_id, new_count, from_text) ==
    IF Blocked(st) THEN Refuse(st)
    ELSE Ran(st, [st.db EXCEPT !.weekly_allocations =
                    {IF a.deployment_id = deployment_id
                        /\ TextLeq(from_text, a.week_start)
                     THEN [a EXCEPT !.device_count = new_count]
                     ELSE a : a \in @}])

\* the delete with WHERE id = %s
DeleteAllocationById(st, deployment_id) ==
    IF Blocked(st) THEN Refuse(st)
    ELSE Ran(st, [st.db EXCEPT !.weekly_allocations =
                    {a \in @ : a.id # deployment_id}])

\* DELETE FROM weekly_allocations WHERE deployment_id = %s
DeleteAllocationsOf(st, deployment_id) ==
    IF Blocked(st) THEN Refuse(st)
    ELSE Ran(st, [st.db EXCEPT !.weekly_allocations =
                    {a \in @ : a.deployment_id # deployment_id}])

(***************************************************************************)
(* The database calls of src/src/database.py.  Each returns the connection *)
(* as get_connection leaves it.                                            *)
(***************************************************************************)
create_device_type(failAt, name, total_fleet, under_repair) ==
    get_connection(commit(
        InsertDeviceType(getconn(failAt), name, total_fleet, under_repair)))

update_device_type(failAt, device_type_id, name, total_fleet, under_repair) ==
    get_connection(commit(
        UpdateDeviceType(getconn(failAt), device_type_id, name, total_fleet,
                         under_repair)))

delete_device_type(failAt, device_type_id) ==
    get_connection(commit(DeleteDeviceType(getconn(failAt), device_type_id)))

create_project(failAt) ==
    get_connection(commit(InsertProject(getconn(failAt))))

delete_project(failAt, project_id) ==
    get_connection(commit(DeleteProject(getconn(failAt), project_id)))

\* create_deployment committing before the allocation rows are inserted
create_deployment_commit_first(failAt, project_id, venue, start_date, end_date, device_type_id, default_device_count) ==
    LET s1 == commit(InsertDeployment(getconn(failAt), project_id, venue,
                                      start_date, end_date, device_type_id,
                                      default_device_count))
        s2 == InsertWeeks(s1, s1.ret, _week_mondays(start_date, end_date),
                          default_device_count)
    IN  get_connection(s2)

create_deployment(failAt, project_id, venue, start_date, end_date, device_type_id, default_device_count) ==
    LET s1 == InsertDeployment(getconn(failAt), project_id, venue, start_date,
                               end_date, device_type_id, default_device_count)
        s2 == InsertWeeks(s1, s1.ret, _week_mondays(start_date, end_date),
                          default_device_count)
    IN  get_connection(commit(s2))

\* if not kwargs: return (no connection is taken)
update_deployment(failAt, deployment_id, kwargs) ==
    IF DOMAIN kwargs = {} THEN getconn(0)
    ELSE get_connection(commit(
             UpdateDeployment(getconn(failAt), deployment_id, kwargs)))

delete_deployment(failAt, deployment_id) ==
    get_connection(commit(DeleteDeployment(getconn(failAt), deployment_id)))

update_weekly_allocation(failAt, allocation_id, device_count) ==
    get_connection(commit(
        UpdateAllocation(getconn(failAt), allocation_id, device_count)))

bulk_update_allocations_from(failAt, deployment_id, new_count, from_date) ==
    get_connection(commit(
        UpdateAllocationsFrom(getconn(failAt), deployment_id, new_count,
                              DateStr(from_date))))

\* the regeneration committing its DELETE before the rows are inserted
regenerate_commit_after_delete(failAt, deployment_id, start_date, end_date, default_count) ==
    LET s1 == commit(DeleteAllocationsOf(getconn(failAt), deployment_id))
        s2 == InsertWeeks(s1, deployment_id, _week_mondays(start_date, end_date),
                          default_count)
    IN  get_connection(commit(s2))

\* the regeneration without its DELETE: the old rows stay beside the new ones
regenerate_keeping_rows(failAt, deployment_id, start_date, end_date, default_count) ==
    get_connection(commit(
        InsertWeeks(getconn(failAt), deployment_id,
                    _week_mondays(start_date, end_date), default_count)))

regenerate_weekly_allocations(failAt, deployment_id, start_date, end_date, default_count) ==
    LET s1 == DeleteAllocationsOf(getconn(failAt), deployment_id)
        s2 == InsertWeeks(s1, deployment_id, _week_mondays(start_date, end_date),
                          default_count)
    IN  get_connection(commit(s2))

(***************************************************************************)
(* get_fleet_usage_by_week                                                 *)
(***************************************************************************)
\* FROM weekly_allocations wa JOIN deployments d ON wa.deployment_id = d.id
\* JOIN device_types dt ON d.device_type_id = dt.id
\* WHERE wa.week_start >= %s AND wa.week_start <= %s [AND dt.id = %s]
\* `if device_type_id:` adds the last condition unless device_type_id is None
\* or 0; both are passed here as 0
UsageJoinOnDeploymentId(start_text, end_text, device_type_id) ==
    {j \in [wa : weekly_allocations, d : deployments, dt : device_types] :
        /\ j.wa.deployment_id = j.d.id
        /\ j.d.id = j.dt.id
        /\ TextLeq(start_text, j.wa.week_start)
        /\ TextLeq(j.wa.week_start, end_text)
        /\ (device_type_id # 0 => j.dt.id = device_type_id)}

UsageJoinOpenEnd(start_text, end_text, device_type_id) ==
    {j \in [wa : weekly_allocations, d : deployments, dt : device_types] :
        /\ j.wa.deployment_id = j.d.id
        /\ j.d.device_type_id = j.dt.id
        /\ TextLeq(start_text, j.wa.week_start)
        /\ TextLess(j.wa.week_start, end_text)
        /\ (device_type_id # 0 => j.dt.id = device_type_id)}

UsageJoin(start_text, end_text, device_type_id) ==
    {j \in [wa : weekly_allocations, d : deployments, dt : device_types] :
        /\ j.wa.deployment_id = j.d.id
        /\ j.d.device_type_id = j.dt.id
        /\ TextLeq(start_text, j.wa.week_start)
        /\ TextLeq(j.wa.week_start, end_text)
        /\ (device_type_id # 0 => j.dt.id = device_type_id)}

\* SUM(wa.device_count) over a distinct set of counts
RECURSIVE SumOfSet(_)
SumOfSet(ns) ==
    IF ns = {} THEN 0
    ELSE LET n == CHOOSE n \in ns : TRUE IN n + SumOfSet(ns \ {n})

\* SUM(DISTINCT wa.device_count): equal counts are added once
SUM_DISTINCT(joined) == SumOfSet({j.wa.device_count : j \in joined})

\* SUM(wa.device_count) over the joined rows of a group
RECURSIVE SUM(_)
SUM(joined) ==
    IF joined = {} THEN 0
    ELSE LET j == CHOOSE j \in joined : TRUE
         IN  j.wa.device_count + SUM(joined \ {j})

\* available computed with a floor of zero
AvailableClamped(total_fleet, under_repair, total_in_use) ==
    IF total_fleet - under_repair - total_in_use < 0 THEN 0
    ELSE total_fleet - under_repair - total_in_use

\* d["available"] = d["total_fleet"] - d["under_repair"] - d["total_in_use"]
Available(total_fleet, under_repair, total_in_use) ==
    total_fleet - under_repair - total_in_use

\* GROUP BY wa.week_start, dt.id, dt.name, dt.total_fleet, dt.under_repair:
\* one row per group, with the `available` key the result loop adds
UsageGroups(joined) ==
    {LET group == {k \in joined : k.wa.week_start = j.wa.week_start /\ k.dt = j.dt}
         total == SUM(group)
     IN  [week_start |-> j.wa.week_start, device_type_id |-> j.dt.id,
          device_type_name |-> j.dt.name, total_fleet |-> j.dt.total_fleet,
          under_repair |-> j.dt.under_repair, total_in_use |-> total,
          available |-> Available(j.dt.total_fleet, j.dt.under_repair, total)]
     : j \in joined}

\* ORDER BY dt.name, wa.week_start
UsageBeforeByName(r, q) ==
    \/ TextLess(r.device_type_name, q.device_type_name)
    \/ r.device_type_name = q.device_type_name
       /\ TextLess(r.week_start, q.week_start)

\* ORDER BY wa.week_start, dt.name
UsageBefore(r, q) ==
    \/ TextLess(r.week_start, q.week_start)
    \/ r.week_start = q.week_start
       /\ TextLess(r.device_type_name, q.device_type_name)

RECURSIVE OrderBy(_)
OrderBy(rows) ==
    IF rows = {} THEN <<>>
    ELSE LET r == CHOOSE r \in rows : \A q \in rows \ {r} : UsageBefore(r, q)
         IN  <<r>> \o OrderBy(rows \ {r})

get_fleet_usage_by_week(start_date, end_date, device_type_id) ==
    OrderBy(UsageGroups(UsageJoin(DateStr(start_date), DateStr(end_date),
                                  device_type_id)))

(***************************************************************************)
(* The shortage classes of src/app.py.  `total_fleet * 0.1` is a product   *)
(* of IEEE 754 doubles.  A double is sig * 2^exp with sig an integer of at *)
(* most 53 bits, written as the sequence of its bits, lowest first.        *)
(***************************************************************************)
\* the bits of a natural number, lowest first
RECURSIVE BitsOf(_)
BitsOf(n) == IF n = 0 THEN <<>> ELSE <<n % 2>> \o BitsOf(n \div 2)

\* the natural number with these bits
RECURSIVE IntOf(_)
IntOf(bits) == IF bits = <<>> THEN 0 ELSE Head(bits) + 2 * IntOf(Tail(bits))

\* the literal 0.1 is the double 0x3FB999999999999A: the 53-bit significand
\* 0x1999999999999A (hexadecimal digits, lowest first) times 2^-56
TenthHex == <<10, 9, 9, 9, 9, 9, 9, 9, 9, 9, 9, 9, 9, 1>>

TenthSig ==
    [i \in 1 .. 53 |->
        (TenthHex[((i - 1) \div 4) + 1] \div (2 ^ ((i - 1) % 4))) % 2]

\* bits * n + carry, as bits
RECURSIVE MulByInt(_, _, _)
MulByInt(bits, n, carry) ==
    IF bits = <<>> THEN BitsOf(carry)
    ELSE LET v == Head(bits) * n + carry
         IN  <<v % 2>> \o MulByInt(Tail(bits), n, v \div 2)

\* bits + 1
RECURSIVE Inc(_)
Inc(bits) ==
    IF bits = <<>> THEN <<1>>
    ELSE IF Head(bits) = 0 THEN <<1>> \o Tail(bits)
    ELSE <<0>> \o Inc(Tail(bits))

\* the exact product rounded to 53 significant bits, ties to even
RoundToDouble(bits, exp) ==
    IF Len(bits) <= 53 THEN [sig |-> bits, exp |-> exp]
    ELSE LET k      == Len(bits) - 53
             kept   == SubSeq(bits, k + 1, Len(bits))
             guard  == bits[k] = 1
             sticky == \E i \in 1 .. k - 1 : bits[i] = 1
             up     == guard /\ (sticky \/ kept[1] = 1)
         IN  [sig |-> IF up THEN Inc(kept) ELSE kept, exp |-> exp + k]

\* total_fleet // 10: the tenth taken in integer arithmetic
TimesTenthFloored(total_fleet) ==
    [sig |-> BitsOf(total_fleet \div 10), exp |-> 0]

\* total_fleet * 0.1 (total_fleet >= 0 converts to a double exactly)
TimesTenth(total_fleet) == RoundToDouble(MulByInt(TenthSig, total_fleet, 0), -56)

\* n < x for an int n and a double x >= 0 with exp <= 0 (Python compares the
\* two exactly)
IntLess(n, x) ==
    LET shift == 0 - x.exp
        whole == IF shift >= Len(x.sig) THEN 0
                 ELSE IntOf(SubSeq(x.sig, shift + 1, Len(x.sig)))
        part  == \E i \in 1 .. Len(x.sig) : i <= shift /\ x.sig[i] = 1
    IN  n < whole \/ (n = whole /\ part)

\* render_dashboard: alerts = [r for r in future_usage if r["available"] < 0]
alerts(r) == r.available < 0

\* render_dashboard: warnings = [r for r in future_usage
\*                               if 0 <= r["available"] < r["total_fleet"] * 0.1]
warnings(r) == 0 <= r.available /\ IntLess(r.available, TimesTenth(r.total_fleet))

\* highlight_shortage: the background colour of the row
highlight_shortage(row) ==
    IF row.available < 0 THEN "#ffcccc"
    ELSE IF IntLess(row.available, TimesTenth(row.total_fleet)) THEN "#fff3cd"
    ELSE ""

(***************************************************************************)
(* The state machine: one action per database call.  A scope S names the   *)
(* inputs the calls are explored on:                                       *)
(*   device_type_ids, deployment_ids,  the ids the SERIAL columns may reach*)
(*   project_ids                                                           *)
(*   counts                            the counts given to                 *)
(*                                     update_weekly_allocation            *)
(*   create, regenerate                the <<start, end>> ranges passed    *)
(*   kwargs                            the field sets of update_deployment *)
(*   devices                           the device types entered            *)
(*   inject                            the calls whose statements may fail *)
(*                                     before reaching the server          *)
(*   observe                           the calls that `last` records       *)
(***************************************************************************)
\* no call on record
NoCall == [op |-> "-", raised |-> FALSE, ret |-> 0, changed |-> FALSE]

\* the record of a call: its name, whether it raised, the id it returned (0
\* when it returned none) and whether it changed the committed tables
Call(op, st) ==
    [op |-> op, raised |-> st.raised, ret |-> IF st.raised THEN 0 ELSE st.ret,
     changed |-> st.committed # Tables]

\* what a call leaves: the committed tables, the sequences, the connection
Leaves(S, op, st) ==
    /\ device_types' = st.committed.device_types
    /\ projects' = st.committed.projects
    /\ deployments' = st.committed.deployments
    /\ weekly_allocations' = st.committed.weekly_allocations
    /\ serial' = st.serial
    /\ conn' = IF st.status = "idle" THEN Idle
               ELSE [status |-> st.status, db |-> st.db]
    /\ last' = IF op \in S.observe THEN Call(op, st) ELSE NoCall
    /\ UNCHANGED <<grid, usage, threads, expected>>

\* the statement that fails before reaching the server: none (0), or any of
\* the n statements of the call
FailPoints(S, op, n) == IF op \in S.inject THEN 0 .. n ELSE {0}

CreateDeviceType(S) ==
    /\ serial.device_types < Cardinality(S.device_type_ids)
    /\ \E failAt \in FailPoints(S, "create_device_type", 2), in \in S.devices :
         Leaves(S, "create_device_type",
                create_device_type(failAt, in[1], in[2], in[3]))

UpdateDeviceTypeCall(S) ==
    \E failAt \in FailPoints(S, "update_device_type", 2),
       id \in S.device_type_ids, in \in S.devices :
      Leaves(S, "update_device_type",
             update_device_type(failAt, id, in[1], in[2], in[3]))

DeleteDeviceTypeCall(S) ==
    \E failAt \in FailPoints(S, "delete_device_type", 2), id \in S.device_type_ids :
      Leaves(S, "delete_device_type", delete_device_type(failAt, id))

CreateProject(S) ==
    /\ serial.projects < Cardinality(S.project_ids)
    /\ \E failAt \in FailPoints(S, "create_project", 2) :
         Leaves(S, "create_project", create_project(failAt))

DeleteProjectCall(S) ==
    \E failAt \in FailPoints(S, "delete_project", 2), id \in S.project_ids :
      Leaves(S, "delete_project", delete_project(failAt, id))

CreateDeployment(S) ==
    /\ serial.deployments < Cardinality(S.deployment_ids)
    /\ \E project_id \in S.project_ids, range \in S.create,
          device_type_id \in S.device_type_ids, count \in Counts :
         LET weeks == _week_mondays(range[1], range[2])
         IN  /\ serial.weekly_allocations + Len(weeks) <= MaxAllocations
             /\ \E failAt \in FailPoints(S, "create_deployment", Len(weeks) + 2) :
                  Leaves(S, "create_deployment",
                         create_deployment(failAt, project_id, "Hall", range[1],
                                           range[2], device_type_id, count))

UpdateDeploymentCall(S) ==
    \E failAt \in FailPoints(S, "update_deployment", 2), id \in S.deployment_ids,
       kwargs \in S.kwargs :
      Leaves(S, "update_deployment", update_deployment(failAt, id, kwargs))

DeleteDeploymentCall(S) ==
    \E failAt \in FailPoints(S, "delete_deployment", 2), id \in S.deployment_ids :
      Leaves(S, "delete_deployment", delete_deployment(failAt, id))

UpdateWeeklyAllocation(S) ==
    \E failAt \in FailPoints(S, "update_weekly_allocation", 2),
       id \in AllocationIds, count \in S.counts :
      Leaves(S, "update_weekly_allocation",
             update_weekly_allocation(failAt, id, count))

BulkUpdateAllocationsFrom(S) ==
    \E failAt \in FailPoints(S, "bulk_update_allocations_from", 2),
       id \in S.deployment_ids, count \in Counts, from_date \in SampleDates :
      Leaves(S, "bulk_update_allocations_from",
             bulk_update_allocations_from(failAt, id, count, from_date))

RegenerateWeeklyAllocations(S) ==
    \E id \in S.deployment_ids, range \in S.regenerate, count \in Counts :
      LET weeks == _week_mondays(range[1], range[2])
      IN  /\ serial.weekly_allocations + Len(weeks) <= MaxAllocations
          /\ \E failAt \in FailPoints(S, "regenerate_weekly_allocations",
                                      Len(weeks) + 2) :
               Leaves(S, "regenerate_weekly_allocations",
                      regenerate_weekly_allocations(failAt, id, range[1],
                                                    range[2], count))

\* ThreadedConnectionPool(minconn=1, maxconn=5, ...)
maxconn == 5

\* the threads that may be inside a database call at the same time: one more
\* than the pool has connections
Threads == 1 .. maxconn + 1

\* a thread outside any database call: no connection, no transaction
IdleThread ==
    [pc |-> "idle", call |-> <<>>, todo |-> <<>>, targets |-> {}, del |-> {},
     upd |-> {}, ins |-> {}, status |-> "idle", raised |-> FALSE, held |-> 0]

\* the tables init_db creates are empty; no thread is inside a call
Init ==
    /\ device_types = {}
    /\ projects = {}
    /\ deployments = {}
    /\ weekly_allocations = {}
    /\ serial = [device_types |-> 0, projects |-> 0, deployments |-> 0,
                 weekly_allocations |-> 0]
    /\ conn = Idle
    /\ last = NoCall
    /\ grid = [start |-> 0, end |-> 0, pc |-> "idle", weeks |-> <<>>]
    /\ usage = [pc |-> "idle"]
    /\ threads = EmptyBag
    /\ expected = {}

AllRanges == SampleDates \X SampleDates

\* the longest sample range
LongRange == {<<FirstDate, LastDate>>}

\* the ranges from the first sample date on, and two that start at the last
FirstRanges ==
    {<<FirstDate, d>> : d \in SampleDates}
        \cup {<<LastDate, FirstDate>>, <<LastDate, LastDate>>}

(***************************************************************************)
(* Spec: every call, on two device types and two deployments.  Deployments *)
(* are created over the longest sample range, regenerated over the ranges  *)
(* of FirstRanges, and edited in venue or device type; `last` records the  *)
(* calls of delete_deployment.                                             *)
(***************************************************************************)
\* the names of the calls
Calls ==
    {"create_device_type", "update_device_type", "delete_device_type",
     "create_project", "delete_project", "create_deployment",
     "update_deployment", "delete_deployment", "update_weekly_allocation",
     "bulk_update_allocations_from", "regenerate_weekly_allocations"}

Wide ==
    [device_type_ids |-> {1, 2}, deployment_ids |-> {1, 2},
     project_ids |-> ProjectIds, counts |-> Counts, create |-> LongRange, regenerate |-> FirstRanges,
     kwargs |-> {<<>>, [venue |-> "Dome"], [device_type_id |-> 1],
                 [device_type_id |-> 2]},
     devices |-> DeviceInputs, inject |-> {}, observe |-> {"delete_deployment"}]

Next ==
    \/ CreateDeviceType(Wide)
    \/ UpdateDeviceTypeCall(Wide)
    \/ DeleteDeviceTypeCall(Wide)
    \/ CreateProject(Wide)
    \/ DeleteProjectCall(Wide)
    \/ CreateDeployment(Wide)
    \/ UpdateDeploymentCall(Wide)
    \/ DeleteDeploymentCall(Wide)
    \/ UpdateWeeklyAllocation(Wide)
    \/ BulkUpdateAllocationsFrom(Wide)
    \/ RegenerateWeeklyAllocations(Wide)

Spec == Init /\ [][Next]_vars

(***************************************************************************)
(* SpecCalls: the calls on one deployment of one device type, created over *)
(* every pair of sample dates and edited in every field set, with a        *)
(* failure at any statement of the calls that write allocation rows;       *)
(* `last` records each call.                                               *)
(***************************************************************************)
Deep ==
    [device_type_ids |-> {1}, deployment_ids |-> {1},
     project_ids |-> ProjectIds, counts |-> Counts, create |-> AllRanges, regenerate |-> FirstRanges,
     kwargs |-> {<<>>, [venue |-> "Dome"], [device_type_id |-> 2],
                 [default_device_count |-> 3],
                 [start_date |-> DateStr(LastDate), end_date |-> DateStr(FirstDate)]},
     devices |-> {<< <<77>>, 10, 1 >>},
     inject |-> {"create_deployment", "bulk_update_allocations_from",
                 "regenerate_weekly_allocations"},
     observe |-> Calls]

NextCalls ==
    \/ CreateDeviceType(Deep)
    \/ CreateProject(Deep)
    \/ CreateDeployment(Deep)
    \/ UpdateDeploymentCall(Deep)
    \/ DeleteDeploymentCall(Deep)
    \/ UpdateWeeklyAllocation(Deep)
    \/ BulkUpdateAllocationsFrom(Deep)
    \/ RegenerateWeeklyAllocations(Deep)

SpecCalls == Init /\ [][NextCalls]_vars

(***************************************************************************)
(* SpecGrid: _week_mondays called on every pair of days of the grid span.  *)
(***************************************************************************)
WeekMondaysCall ==
    /\ \E start \in GridDays, end \in GridDays :
         grid' = [start |-> start, end |-> end, pc |-> "returned",
                  weeks |-> _week_mondays(start, end)]
    /\ UNCHANGED <<device_types, projects, deployments, weekly_allocations,
                   serial, last, conn, usage, threads, expected>>

NextGrid == WeekMondaysCall

SpecGrid == Init /\ [][NextGrid]_vars

(***************************************************************************)
(* C1                                                                      *)
(***************************************************************************)
\* C1: for every range with start <= end, _week_mondays returns anchors that
\* are all Mondays, the first one on or before start and at most 6 days
\* before it, the last one on or before end and at most 6 days before it,
\* and each anchor exactly 7 days after the one before it.
C1_WeekGrid ==
    (grid.pc = "returned" /\ grid.start <= grid.end) =>
        LET weeks == grid.weeks
            n     == Len(weeks)
        IN  /\ n >= 1
            /\ \A i \in 1 .. n : weeks[i] % 7 = 1
            /\ weeks[1] <= grid.start /\ grid.start - weeks[1] <= 6
            /\ weeks[n] <= grid.end /\ grid.end - weeks[n] <= 6
            /\ \A i \in 1 .. n - 1 : weeks[i + 1] = weeks[i] + 7

\* a range that starts and ends inside a week and touches three weeks or more
C1_Witness ==
    /\ grid.pc = "returned"
    /\ grid.start < grid.end
    /\ Len(grid.weeks) >= 3
    /\ grid.weeks[1] < grid.start
    /\ grid.weeks[Len(grid.weeks)] < grid.end

(***************************************************************************)
(* C3, C4: the usage query in every state of Spec                          *)
(***************************************************************************)
\* the ranges the usage query is called on: the sample dates from the Monday
\* of the first one on, as the views pass them, and the first two sample
\* dates, which cut the weeks before the first and after the second off
UsageRanges ==
    {<<MondayOf(FirstDate), LastDate>>, <<FirstDate, FirstDate + DateStep>>}

\* the device type filters: none, or one of the ids
UsageFilters == {0} \cup Wide.device_type_ids

\* the sum of device_count over the rows, taken id by id
RECURSIVE CountsUpTo(_, _)
CountsUpTo(rows, n) ==
    IF n = 0 THEN 0
    ELSE CountsUpTo(rows, n - 1)
         + (IF \E a \in rows : a.id = n
            THEN (CHOOSE a \in rows : a.id = n).device_count ELSE 0)

\* the allocation rows of week w that belong to deployments of device type t
RowsOf(w, t) ==
    {a \in weekly_allocations :
        /\ a.week_start = w
        /\ \E d \in deployments : d.id = a.deployment_id /\ d.device_type_id = t}

\* C3: for every week w and device type t in the range asked for, the usage
\* query reports for (w, t) exactly one row whose total_in_use is the sum of
\* device_count over the allocation rows of week w of deployments of type t,
\* each counted once; it reports no row for a pair without such rows.
C3_TotalInUse ==
    \A range \in UsageRanges, filter \in UsageFilters :
        LET result == get_fleet_usage_by_week(range[1], range[2], filter)
            asked(w, t) == /\ TextLeq(DateStr(range[1]), w)
                           /\ TextLeq(w, DateStr(range[2]))
                           /\ filter \in {0, t}
        IN  /\ \A a \in weekly_allocations, dt \in device_types :
                 LET w == a.week_start
                     rows == RowsOf(w, dt.id)
                     reported == {i \in 1 .. Len(result) :
                                    /\ result[i].week_start = w
                                    /\ result[i].device_type_id = dt.id}
                 IN  IF rows # {} /\ asked(w, dt.id)
                     THEN /\ Cardinality(reported) = 1
                          /\ \A i \in reported :
                               result[i].total_in_use
                                   = CountsUpTo(rows, MaxAllocations)
                     ELSE reported = {}
            /\ \A i \in 1 .. Len(result) :
                 RowsOf(result[i].week_start, result[i].device_type_id) # {}

\* two deployments of one device type hold the same count in the same week,
\* and the query reports their sum
C3_Witness ==
    \E a \in weekly_allocations, b \in weekly_allocations :
        /\ a.deployment_id # b.deployment_id
        /\ a.week_start = b.week_start
        /\ a.device_count = 5 /\ b.device_count = 5
        /\ LET result == get_fleet_usage_by_week(MondayOf(FirstDate), LastDate, 0)
           IN  \E i \in 1 .. Len(result) :
                 /\ result[i].week_start = a.week_start
                 /\ result[i].total_in_use = 10

\* C4: every row the usage query returns has available = total_fleet -
\* under_repair - total_in_use of its device type, and the value is negative
\* (not raised to zero) when total_in_use exceeds total_fleet - under_repair.
C4_Available ==
    \A range \in UsageRanges, filter \in UsageFilters :
        LET result == get_fleet_usage_by_week(range[1], range[2], filter)
        IN  \A i \in 1 .. Len(result) :
              \E dt \in device_types :
                /\ dt.id = result[i].device_type_id
                /\ result[i].total_fleet = dt.total_fleet
                /\ result[i].under_repair = dt.under_repair
                /\ result[i].available + result[i].total_in_use
                       + dt.under_repair = dt.total_fleet
                /\ (result[i].total_in_use > dt.total_fleet - dt.under_repair
                        => result[i].available < 0)

\* a week in which a device type is oversubscribed
C4_Witness ==
    LET result == get_fleet_usage_by_week(MondayOf(FirstDate), LastDate, 0)
    IN  \E i \in 1 .. Len(result) :
          /\ result[i].total_in_use > result[i].total_fleet - result[i].under_repair
          /\ result[i].available < 0

(***************************************************************************)
(* SpecClass: one usage row, shown by the dashboard and by the fleet       *)
(* forecast.                                                               *)
(***************************************************************************)
\* the under_repair values of the rows
Repairs == {0, 10}

Rest == <<device_types, projects, deployments, weekly_allocations, serial, last,
          conn, grid, threads, expected>>

\* a row as get_fleet_usage_by_week returns it
UsageRow ==
    /\ usage.pc = "idle"
    /\ \E total_fleet \in 0 .. MaxFleet, under_repair \in Repairs,
          total_in_use \in 0 .. MaxInUse :
         usage' = [pc |-> "row",
                   row |-> [total_fleet |-> total_fleet,
                            under_repair |-> under_repair,
                            total_in_use |-> total_in_use,
                            available |-> Available(total_fleet, under_repair,
                                                    total_in_use)],
                   dashboard |-> "", forecast |-> "-"]
    /\ UNCHANGED Rest

\* render_dashboard: which of the two lists the row is put in
RenderDashboard ==
    /\ usage.pc = "row" /\ usage.dashboard = ""
    /\ usage' = [usage EXCEPT !.dashboard =
                    IF alerts(usage.row) /\ warnings(usage.row) THEN "both"
                    ELSE IF alerts(usage.row) THEN "alert"
                    ELSE IF warnings(usage.row) THEN "warning"
                    ELSE "neither"]
    /\ UNCHANGED Rest

\* render_fleet: the style highlight_shortage gives the row
RenderFleet ==
    /\ usage.pc = "row" /\ usage.forecast = "-"
    /\ usage' = [usage EXCEPT !.forecast = highlight_shortage(usage.row)]
    /\ UNCHANGED Rest

NextClass == UsageRow \/ RenderDashboard \/ RenderFleet

SpecClass == Init /\ [][NextClass]_vars

(***************************************************************************)
(* C5                                                                      *)
(***************************************************************************)
\* C5: a usage row is a shortage iff available < 0 and a warning iff
\* 0 <= available and 10 * available < total_fleet; no row is both; the
\* dashboard lists and the fleet forecast highlighter give every row the same
\* class.
C5_Classes ==
    usage.pc = "row" =>
        LET r        == usage.row
            shortage == r.available < 0
            warning  == 0 <= r.available /\ 10 * r.available < r.total_fleet
            class    == IF shortage THEN "alert"
                        ELSE IF warning THEN "warning" ELSE "neither"
            colour   == IF shortage THEN "#ffcccc"
                        ELSE IF warning THEN "#fff3cd" ELSE ""
        IN  /\ ~ (shortage /\ warning)
            /\ usage.dashboard # "" => usage.dashboard = class
            /\ usage.forecast # "-" => usage.forecast = colour

\* total_fleet 100, under_repair 10, total_in_use 82: available 8 is a warning
\* in both views
C5_Witness ==
    /\ usage.pc = "row"
    /\ usage.row.total_fleet = 100 /\ usage.row.under_repair = 10
    /\ usage.row.total_in_use = 82 /\ usage.row.available = 8
    /\ usage.dashboard = "warning"
    /\ usage.forecast = "#fff3cd"

(***************************************************************************)
(* C2, C6, C7, C8, C9: the calls on a deployment, in SpecCalls             *)
(***************************************************************************)
\* the step is what this call leaves
StepIs(st) ==
    /\ device_types' = st.committed.device_types
    /\ projects' = st.committed.projects
    /\ deployments' = st.committed.deployments
    /\ weekly_allocations' = st.committed.weekly_allocations
    /\ serial' = st.serial

\* the last call was op and returned normally
Returned(op) == last.op = op /\ ~ last.raised

AllocationsOf(id) == {a \in weekly_allocations : a.deployment_id = id}

\* the same, after the step
AllocationsAfter(id) == {a \in weekly_allocations' : a.deployment_id = id}

\* the Mondays of the weeks the range touches: those later than start - 7 and
\* not later than end
Anchors(start, end) == {m \in start - 6 .. end : m % 7 = 1}

\* rows holds one row per anchor of the range and no other, all at count
Seeded(rows, start, end, count) ==
    /\ Cardinality(rows) = Cardinality(Anchors(start, end))
    /\ {a.week_start : a \in rows} = {DateStr(m) : m \in Anchors(start, end)}
    /\ \A a \in rows : a.device_count = count

\* the day a TEXT date stands for
DateOf(text) == CHOOSE d \in DOMAIN DateTexts : DateTexts[d] = text

\* C2: after a successful create_deployment(start, end, defaultCount) with
\* start <= end, the deployment it returned exists and owns exactly one
\* allocation row per anchor of [start, end], each with device_count =
\* defaultCount, and no other row.
C2_CreateSeeds ==
    [][Returned("create_deployment")' =>
        \A project_id \in ProjectIds, range \in Deep.create,
           device_type_id \in Deep.device_type_ids, count \in Counts :
            (/\ range[1] <= range[2]
             /\ StepIs(create_deployment(0, project_id, "Hall", range[1],
                                         range[2], device_type_id, count)))
            => /\ \E d \in deployments' : d.id = last'.ret
               /\ Seeded(AllocationsAfter(last'.ret), range[1], range[2], count)
    ]_vars

\* a deployment just created over the two weeks of the longest range at 5
C2_Witness ==
    /\ Returned("create_deployment")
    /\ \E d \in deployments :
         /\ d.id = last.ret
         /\ d.start_date = DateStr(FirstDate) /\ d.end_date = DateStr(LastDate)
         /\ d.default_device_count = 5
    /\ Cardinality(AllocationsOf(last.ret)) = 2
    /\ \A a \in AllocationsOf(last.ret) : a.device_count = 5

\* C6: a successful bulk_update_allocations_from(deploymentId, newCount,
\* fromDate) keeps the deployment's rows, sets device_count = newCount on
\* those whose week_start is on or after fromDate and leaves those whose
\* week_start is before fromDate as they were.
C6_BulkFrom ==
    [][Returned("bulk_update_allocations_from")' =>
        \A id \in Deep.deployment_ids, count \in Counts,
           from_date \in SampleDates :
            StepIs(bulk_update_allocations_from(0, id, count, from_date))
            => /\ {a.id : a \in AllocationsAfter(id)}
                      = {a.id : a \in AllocationsOf(id)}
               /\ \A a \in AllocationsOf(id) :
                    \E b \in AllocationsAfter(id) :
                        /\ b.id = a.id
                        /\ b.week_start = a.week_start
                        /\ b.device_count =
                             IF DateOf(a.week_start) >= from_date
                             THEN count ELSE a.device_count
    ]_vars

\* a bulk update from the second week on: the first week still holds 5, the
\* second holds 3
C6_Witness ==
    /\ Returned("bulk_update_allocations_from")
    /\ last.changed
    /\ \E a \in AllocationsOf(1), b \in AllocationsOf(1) :
         /\ DateOf(a.week_start) < DateOf(b.week_start)
         /\ a.device_count = 5
         /\ b.device_count = 3

\* C7: a create_deployment that raises, at the deployment insert, at any of
\* the allocation inserts or at commit, leaves the committed deployments and
\* allocation rows as they were; a deployment row enters the committed state
\* only in the step of a create_deployment that returned, under the id it
\* returned, and an allocation row only in the step of a create_deployment
\* or regenerate_weekly_allocations that returned.
C7_CreateAtomic ==
    [][/\ (last'.op = "create_deployment" /\ last'.raised)
            => /\ deployments' = deployments
               /\ weekly_allocations' = weekly_allocations
       /\ \A d \in deployments' :
            (\A e \in deployments : e.id # d.id)
                => Returned("create_deployment")' /\ d.id = last'.ret
       /\ \A a \in weekly_allocations' :
            (\A b \in weekly_allocations : b.id # a.id)
                => \/ Returned("create_deployment")'
                   \/ Returned("regenerate_weekly_allocations")'
    ]_vars

\* a create_deployment that raised after its deployment insert and its two
\* allocation inserts had run: the ids are used up, no row is committed
C7_Witness ==
    /\ last.op = "create_deployment" /\ last.raised
    /\ serial.deployments = 1
    /\ serial.weekly_allocations = 2
    /\ deployments = {}
    /\ weekly_allocations = {}

\* the (week_start, device_count) pairs of a deployment's rows once
\* regenerate_weekly_allocations has run with these arguments
Regenerated(id, start, end, count) ==
    {<<a.week_start, a.device_count>> :
        a \in {x \in regenerate_weekly_allocations(0, id, start, end, count)
                        .committed.weekly_allocations : x.deployment_id = id}}

\* C8: after a successful regenerate_weekly_allocations(deploymentId, start,
\* end, defaultCount) the deployment's rows are exactly one per anchor of
\* [start, end], each at defaultCount, and none of the rows it had before is
\* left; in the state such a call leaves, the same call made again gives the
\* same (week_start, device_count) pairs.
C8_Regenerate ==
    /\ [][Returned("regenerate_weekly_allocations")' =>
            \A id \in Deep.deployment_ids, range \in Deep.regenerate,
               count \in Counts :
                StepIs(regenerate_weekly_allocations(0, id, range[1], range[2],
                                                     count))
                => /\ Seeded(AllocationsAfter(id), range[1], range[2], count)
                   /\ \A a \in AllocationsOf(id), b \in AllocationsAfter(id) :
                        a.id # b.id
       ]_vars
    /\ [](Returned("regenerate_weekly_allocations") =>
            \A id \in Deep.deployment_ids, range \in Deep.regenerate,
               count \in Counts :
                Seeded(AllocationsOf(id), range[1], range[2], count)
                => Regenerated(id, range[1], range[2], count)
                       = {<<a.week_start, a.device_count>> :
                              a \in AllocationsOf(id)})

\* the deployment's two rows are the second pair inserted for it, and the
\* call that inserted them was a regeneration
C8_Witness ==
    /\ Returned("regenerate_weekly_allocations")
    /\ last.changed
    /\ Cardinality(AllocationsOf(1)) = 2
    /\ \A a \in AllocationsOf(1) : a.id > 2

\* C9: update_deployment, with any field set, leaves the allocation rows of
\* every deployment as they were.
C9_UpdateKeepsRows ==
    [][last'.op = "update_deployment"
           => weekly_allocations' = weekly_allocations]_vars

\* an update_deployment has set dates (inverted) and a default count that the
\* deployment's rows do not follow
C9_Witness ==
    /\ Returned("update_deployment")
    /\ last.changed
    /\ \E d \in deployments :
         /\ d.default_device_count = 3
         /\ d.start_date = DateStr(LastDate) /\ d.end_date = DateStr(FirstDate)
         /\ Cardinality(AllocationsOf(d.id)) = 2
         /\ \A a \in AllocationsOf(d.id) : a.device_count = 5

(***************************************************************************)
(* C10: delete_deployment, in Spec                                         *)
(***************************************************************************)
\* C10: in every state every allocation row references an existing
\* deployment; after delete_deployment(d) no allocation row has
\* deployment_id = d and the rows of the other deployments are as before.
C10_DeleteCascades ==
    /\ [](\A a \in weekly_allocations :
             \E d \in deployments : d.id = a.deployment_id)
    /\ [][Returned("delete_deployment")' =>
            \A id \in Wide.deployment_ids :
                StepIs(delete_deployment(0, id))
                => /\ AllocationsAfter(id) = {}
                   /\ {a \in weekly_allocations' : a.deployment_id # id}
                          = {a \in weekly_allocations : a.deployment_id # id}
       ]_vars

\* a delete_deployment removed a deployment and the first two allocation
\* rows; the other deployment still has its two
C10_Witness ==
    /\ Returned("delete_deployment")
    /\ last.changed
    /\ serial.weekly_allocations = 4
    /\ \E d \in deployments :
         /\ deployments = {d}
         /\ weekly_allocations = AllocationsOf(d.id)
         /\ {a.id : a \in weekly_allocations} = {3, 4}

(***************************************************************************)
(* SpecDeletes: two projects, two device types, two deployments; the calls *)
(* that create rows, delete a project or a device type, or give a          *)
(* deployment another device type.  `last` records the two deletes.        *)
(***************************************************************************)
Refs ==
    [device_type_ids |-> {1, 2}, deployment_ids |-> {1, 2},
     project_ids |-> {1, 2}, counts |-> Counts, create |-> LongRange,
     regenerate |-> {},
     kwargs |-> {[device_type_id |-> 1], [device_type_id |-> 2]},
     devices |-> DeviceInputs, inject |-> {},
     observe |-> {"delete_project", "delete_device_type"}]

NextDeletes ==
    \/ CreateDeviceType(Refs)
    \/ DeleteDeviceTypeCall(Refs)
    \/ CreateProject(Refs)
    \/ DeleteProjectCall(Refs)
    \/ CreateDeployment(Refs)
    \/ UpdateDeploymentCall(Refs)

SpecDeletes == Init /\ [][NextDeletes]_vars

(***************************************************************************)
(* C11, C12                                                                *)
(***************************************************************************)
\* the step is what this call leaves, and it raised iff the call did
Matches(st) == StepIs(st) /\ last'.raised = st.raised

\* the deployments of project p
DeploymentsOf(p) == {d \in deployments : d.project_id = p}

\* C11: after delete_project(p) no deployment has project_id = p and no
\* allocation row belongs to a deployment that project p had; the
\* deployments of the other projects and their allocation rows are as
\* before.
C11_DeleteProject ==
    [][Returned("delete_project")' =>
        \A p \in Refs.project_ids :
            StepIs(delete_project(0, p))
            => /\ \A d \in deployments' : d.project_id # p
               /\ \A d \in DeploymentsOf(p) : AllocationsAfter(d.id) = {}
               /\ deployments' = deployments \ DeploymentsOf(p)
               /\ weekly_allocations'
                      = {a \in weekly_allocations :
                            \A d \in DeploymentsOf(p) : a.deployment_id # d.id}
    ]_vars

\* a delete_project removed a project with its deployment and both its rows;
\* the other project's deployment still has its two rows
C11_Witness ==
    /\ Returned("delete_project")
    /\ last.changed
    /\ serial.deployments = 2
    /\ serial.weekly_allocations = 4
    /\ \E d \in deployments :
         /\ deployments = {d}
         /\ \E p \in projects : projects = {p} /\ d.project_id = p.id
         /\ weekly_allocations = AllocationsOf(d.id)
         /\ Cardinality(weekly_allocations) = 2

\* C12: in every state every deployment references an existing device type;
\* delete_device_type(t) called while a deployment references t raises and
\* leaves the device types, the deployments and the allocation rows as they
\* were.
C12_DeleteDeviceTypeRejected ==
    /\ [](\A d \in deployments :
             \E t \in device_types : t.id = d.device_type_id)
    /\ [][last'.op = "delete_device_type" =>
            \A t \in Refs.device_type_ids :
                (/\ \E d \in deployments : d.device_type_id = t
                 /\ Matches(delete_device_type(0, t)))
                => /\ last'.raised
                   /\ device_types' = device_types
                   /\ deployments' = deployments
                   /\ weekly_allocations' = weekly_allocations
       ]_vars

\* a delete_device_type raised while both device types exist and a
\* deployment with allocation rows references one of them
C12_Witness ==
    /\ last.op = "delete_device_type" /\ last.raised
    /\ Cardinality(device_types) = 2
    /\ \E d \in deployments : AllocationsOf(d.id) # {}

(***************************************************************************)
(* C13 .. C16, in Spec                                                     *)
(***************************************************************************)
\* C13: in every state reached by the calls, no two allocation rows have the
\* same deployment_id and the same week_start.
C13_OneRowPerWeek ==
    \A a \in weekly_allocations, b \in weekly_allocations :
        (a.deployment_id = b.deployment_id /\ a.week_start = b.week_start)
        => a = b

\* a deployment was regenerated: its two rows are the third and fourth ever
\* inserted and are on different weeks
C13_Witness ==
    /\ Cardinality(weekly_allocations) = 2
    /\ \E a \in weekly_allocations, b \in weekly_allocations :
         /\ a.id = 3 /\ b.id = 4
         /\ a.deployment_id = b.deployment_id
         /\ a.week_start # b.week_start

\* C14: the week_start of every allocation row is the text of a Monday, and
\* no step changes the week_start of a row that stays.
C14_MondayAnchors ==
    /\ [](\A a \in weekly_allocations :
             \E d \in DOMAIN DateTexts :
                 DateTexts[d] = a.week_start /\ Weekday(d) = 0)
    /\ [][\A a \in weekly_allocations, b \in weekly_allocations' :
             a.id = b.id => a.week_start = b.week_start]_vars

\* a deployment starting on a Friday has a row on the Monday before, whose
\* count was changed after it was seeded
C14_Witness ==
    /\ MondayOf(FirstDate) < FirstDate
    /\ \E a \in weekly_allocations, d \in deployments :
         /\ d.id = a.deployment_id
         /\ d.start_date = DateStr(FirstDate)
         /\ a.week_start = DateStr(MondayOf(FirstDate))
         /\ a.device_count # d.default_device_count

\* the (week_start, device type id) pairs with an allocation row whose week
\* is a day of start .. end, of the filter's device type when one is given
UsagePairs(start, end, filter) ==
    {<<a.week_start, d.device_type_id>> :
        <<a, d>> \in {x \in weekly_allocations \X deployments :
                        /\ x[1].deployment_id = x[2].id
                        /\ DateOf(x[1].week_start) \in start .. end
                        /\ filter \in {0, x[2].device_type_id}}}

\* C15: get_fleet_usage_by_week(start, end, filter) returns one row for each
\* (week, device type) pair that has an allocation row with start <=
\* week_start <= end (and the filter's device type, when given), and no
\* other row.
C15_UsageRows ==
    \A range \in UsageRanges, filter \in UsageFilters :
        LET result == get_fleet_usage_by_week(range[1], range[2], filter)
            pairs == UsagePairs(range[1], range[2], filter)
        IN  /\ Len(result) = Cardinality(pairs)
            /\ {<<result[i].week_start, result[i].device_type_id>> :
                    i \in 1 .. Len(result)} = pairs

\* two device types exist and a row lies on the Monday before the range, yet
\* the range's result is the single row of the week the range ends on
C15_Witness ==
    /\ Cardinality(device_types) = 2
    /\ \E a \in weekly_allocations : a.week_start = DateStr(MondayOf(FirstDate))
    /\ LET result == get_fleet_usage_by_week(FirstDate, FirstDate + DateStep, 0)
       IN  /\ Len(result) = 1
           /\ result[1].week_start = DateStr(FirstDate + DateStep)

\* C16: the rows of get_fleet_usage_by_week are in ascending order of week,
\* and within a week in ascending order of device-type name.
C16_UsageOrder ==
    \A range \in UsageRanges, filter \in UsageFilters :
        LET result == get_fleet_usage_by_week(range[1], range[2], filter)
        IN  \A i \in 1 .. Len(result), j \in 1 .. Len(result) :
                i < j =>
                    \/ DateOf(result[i].week_start) < DateOf(result[j].week_start)
                    \/ /\ result[i].week_start = result[j].week_start
                       /\ TextLess(result[i].device_type_name,
                                   result[j].device_type_name)

\* three rows or more, two of them of one week with the device type created
\* second listed first
C16_Witness ==
    LET result == get_fleet_usage_by_week(MondayOf(FirstDate), LastDate, 0)
    IN  /\ Len(result) >= 3
        /\ \E i \in 1 .. Len(result) - 1 :
             /\ result[i].week_start = result[i + 1].week_start
             /\ result[i].device_type_id > result[i + 1].device_type_id

(***************************************************************************)
(* The forms of src/app.py that create and edit rows.  Each gives the call *)
(* it makes (or the message it shows instead) and the connection as the    *)
(* call leaves it.                                                         *)
(***************************************************************************)
\* what st.text_input returns for the venue: nothing typed, or a venue
VenueInputs == {"", "Hall"}

\* what st.text_input returns for a device-type name
NameInputs == {<<>>, <<77>>, <<79>>}

\* what the number_input widgets (min_value=0) return for total_fleet and
\* under_repair
FleetInputs == {0, 4}
RepairInputs == {0, 5}

\* what number_input (min_value=0, value=0) returns for the device count
CountInputs == {0, 3}

\* render_projects, form new_dep_<project id>:
\* if d_venue and d_start and d_end and d_count > 0: db.create_deployment(...)
\* else: st.error(T["proj_dep_fill_error"]).  d_start and d_end are dates,
\* which are always true
new_dep(project_id, d_venue, d_start, d_end, device_type_id, d_count) ==
    IF d_venue # "" /\ d_count > 0
    THEN [op |-> "create_deployment",
          st |-> create_deployment(0, project_id, d_venue, d_start, d_end,
                                   device_type_id, d_count)]
    ELSE [op |-> "proj_dep_fill_error", st |-> getconn(0)]

\* render_fleet, form new_device_type:
\* if dt_name: try: db.create_device_type(...) except Exception: st.error(...)
\* else: st.error(T["fleet_dt_name_required"])
new_device_type(dt_name, dt_total, dt_repair) ==
    IF dt_name # <<>>
    THEN [op |-> "create_device_type",
          st |-> create_device_type(0, dt_name, dt_total, dt_repair)]
    ELSE [op |-> "fleet_dt_name_required", st |-> getconn(0)]

\* render_fleet, form edit_dt_<device type id>:
\* if save: db.update_device_type(dt["id"], ed_name, ed_total, ed_repair, ...)
edit_dt(id, ed_name, ed_total, ed_repair) ==
    [op |-> "update_device_type",
     st |-> update_device_type(0, id, ed_name, ed_total, ed_repair)]

\* the form is drawn for each project; the device type is picked among the
\* names of the existing device types
NewDepForm(S) ==
    /\ serial.deployments < Cardinality(S.deployment_ids)
    /\ \E proj \in projects, dt \in device_types, d_venue \in VenueInputs,
          range \in S.create, d_count \in CountInputs :
         LET out == new_dep(proj.id, d_venue, range[1], range[2], dt.id, d_count)
         IN  /\ out.st.serial.weekly_allocations <= MaxAllocations
             /\ Leaves(S, out.op, out.st)

NewDeviceTypeForm(S) ==
    /\ serial.device_types < Cardinality(S.device_type_ids)
    /\ \E dt_name \in NameInputs, dt_total \in FleetInputs,
          dt_repair \in RepairInputs :
         LET out == new_device_type(dt_name, dt_total, dt_repair)
         IN  Leaves(S, out.op, out.st)

\* one form for each device type of the list
EditDtForm(S) ==
    \E dt \in device_types, ed_name \in NameInputs, ed_total \in FleetInputs,
       ed_repair \in RepairInputs :
      LET out == edit_dt(dt.id, ed_name, ed_total, ed_repair)
      IN  Leaves(S, out.op, out.st)

(***************************************************************************)
(* SpecForms: one project, one device type and one deployment made through *)
(* the forms, and update_weekly_allocation called with any count, zero and *)
(* negative counts included.  `last` records what the new-deployment form  *)
(* did.                                                                    *)
(***************************************************************************)
Forms ==
    [device_type_ids |-> {1}, deployment_ids |-> {1}, project_ids |-> {1},
     counts |-> {-1, 0, 5}, create |-> AllRanges, regenerate |-> {},
     kwargs |-> {}, devices |-> {}, inject |-> {},
     observe |-> {"create_deployment", "proj_dep_fill_error"}]

NextForms ==
    \/ NewDeviceTypeForm(Forms)
    \/ EditDtForm(Forms)
    \/ CreateProject(Forms)
    \/ NewDepForm(Forms)
    \/ UpdateWeeklyAllocation(Forms)

SpecForms == Init /\ [][NextForms]_vars

(***************************************************************************)
(* C17, C18, C19                                                           *)
(***************************************************************************)
\* C17: a deployment is created only with a venue, an end date not before
\* its start date, a positive default count and an existing device type,
\* and a rejected form writes nothing: every deployment that the create
\* path persisted has end_date >= start_date.
C17_CreateValidated ==
    /\ \A d \in deployments :
         /\ d.venue # ""
         /\ ~ TextLess(d.end_date, d.start_date)
         /\ d.default_device_count > 0
         /\ Exists(device_types, d.device_type_id)
    /\ last.op = "proj_dep_fill_error" => ~ last.changed

\* the form created a deployment that ends before it starts
C17_Inverted ==
    /\ Returned("create_deployment")
    /\ \E d \in deployments :
         d.id = last.ret /\ TextLess(d.end_date, d.start_date)

\* C18: every allocation row has device_count >= 0 in every state, since
\* update_weekly_allocation with a negative count is rejected.
C18_CountsNonNegative ==
    \A a \in weekly_allocations : a.device_count >= 0

\* update_weekly_allocation set a seeded row to a negative count
C18_Negative ==
    \E a \in weekly_allocations, d \in deployments :
        /\ d.id = a.deployment_id
        /\ d.default_device_count > 0
        /\ a.device_count < 0

\* C19: in every state every device type has 0 <= under_repair <= total_fleet.
C19_RepairWithinFleet ==
    \A t \in device_types :
        0 <= t.under_repair /\ t.under_repair <= t.total_fleet

\* a device type with a fleet of 4 has 5 under repair
C19_Exceeds ==
    \E t \in device_types : t.total_fleet = 4 /\ t.under_repair = 5

(***************************************************************************)
(* C20, in SpecCalls                                                       *)
(***************************************************************************)
\* C20: a regenerate_weekly_allocations or bulk_update_allocations_from that
\* raises, at whichever statement (for regenerate: the DELETE, any of the
\* inserts, or the commit), leaves the committed allocation rows exactly as
\* they were and the pooled connection without an open transaction; the
\* committed rows change only in the step of a call that returned.
C20_AllOrNothing ==
    [][/\ (/\ last'.op \in {"regenerate_weekly_allocations",
                            "bulk_update_allocations_from"}
           /\ last'.raised)
            => /\ weekly_allocations' = weekly_allocations
               /\ deployments' = deployments
               /\ conn' = Idle
       /\ weekly_allocations' # weekly_allocations
            => last'.op \in Calls /\ ~ last'.raised
    ]_vars

\* a regenerate_weekly_allocations raised after its DELETE and an insert had
\* run: ids were used up, and the deployment still has its two seeded rows
C20_Witness ==
    /\ last.op = "regenerate_weekly_allocations" /\ last.raised
    /\ serial.weekly_allocations > 2
    /\ \E d \in deployments :
         /\ AllocationsOf(d.id) = weekly_allocations
         /\ {a.id : a \in weekly_allocations} = {1, 2}
         /\ \A a \in weekly_allocations : a.device_count = d.default_device_count

(***************************************************************************)
(* C21, in SpecCalls                                                       *)
(***************************************************************************)
\* C21: an update addressed to an id that does not exist raises.  An UPDATE
\* removes no row, so a call that leaves an empty table was addressed to a
\* missing id: an update_weekly_allocation that leaves no allocation row,
\* and an update_deployment or bulk_update_allocations_from that leaves no
\* deployment, raised.
C21_NotFoundReported ==
    /\ (last.op = "update_weekly_allocation" /\ weekly_allocations = {})
         => last.raised
    /\ (/\ last.op \in {"update_deployment", "bulk_update_allocations_from"}
        /\ deployments = {})
         => last.raised

\* update_weekly_allocation returned normally, changing nothing, after the
\* deployment and with it every allocation row had been deleted
C21_SilentNoOp ==
    /\ Returned("update_weekly_allocation")
    /\ ~ last.changed
    /\ serial.deployments = 1 /\ deployments = {}
    /\ serial.weekly_allocations > 0 /\ weekly_allocations = {}

(***************************************************************************)
(* SpecFrame: two deployments of one project and one device type, and the  *)
(* three calls that write allocation rows.  `last` records those three.    *)
(***************************************************************************)
Two ==
    [device_type_ids |-> {1}, deployment_ids |-> {1, 2}, project_ids |-> {1},
     counts |-> Counts, create |-> LongRange \cup {<<FirstDate, FirstDate>>},
     regenerate |-> LongRange \cup {<<FirstDate, FirstDate>>}, kwargs |-> {},
     devices |-> {<< <<77>>, 10, 1 >>}, inject |-> {},
     observe |-> {"update_weekly_allocation", "bulk_update_allocations_from",
                  "regenerate_weekly_allocations"}]

NextFrame ==
    \/ CreateDeviceType(Two)
    \/ CreateProject(Two)
    \/ CreateDeployment(Two)
    \/ UpdateWeeklyAllocation(Two)
    \/ BulkUpdateAllocationsFrom(Two)
    \/ RegenerateWeeklyAllocations(Two)

SpecFrame == Init /\ [][NextFrame]_vars

\* the allocation rows that do not belong to deployment id
AllocationsOutside(id) == {a \in weekly_allocations : a.deployment_id # id}

\* the same, after the step
AllocationsOutsideAfter(id) == {a \in weekly_allocations' : a.deployment_id # id}

\* the allocation rows without their counts
RowKeys(rows) ==
    {[id |-> a.id, deployment_id |-> a.deployment_id, week_start |-> a.week_start] :
        a \in rows}

\* C24: update_weekly_allocation, bulk_update_allocations_from and
\* regenerate_weekly_allocations leave every device type, project and
\* deployment as it was and every allocation row of the deployments they
\* are not applied to; the two updates also leave the set of rows, and each
\* row's deployment_id and week_start, as they were.
C24_Frame ==
    [][/\ last'.op \in Two.observe
            => /\ device_types' = device_types
               /\ projects' = projects
               /\ deployments' = deployments
       /\ last'.op = "update_weekly_allocation"
            => \A id \in AllocationIds, count \in Two.counts :
                 Matches(update_weekly_allocation(0, id, count))
                 => /\ \A a \in weekly_allocations :
                         a.id # id => a \in weekly_allocations'
                    /\ RowKeys(weekly_allocations') = RowKeys(weekly_allocations)
       /\ last'.op = "bulk_update_allocations_from"
            => \A id \in Two.deployment_ids, count \in Counts, from \in SampleDates :
                 Matches(bulk_update_allocations_from(0, id, count, from))
                 => /\ AllocationsOutsideAfter(id) = AllocationsOutside(id)
                    /\ RowKeys(weekly_allocations') = RowKeys(weekly_allocations)
       /\ last'.op = "regenerate_weekly_allocations"
            => \A id \in Two.deployment_ids, range \in Two.regenerate, count \in Counts :
                 Matches(regenerate_weekly_allocations(0, id, range[1], range[2], count))
                 => AllocationsOutsideAfter(id) = AllocationsOutside(id)
    ]_vars

\* after an update_weekly_allocation that changed a row, one deployment has
\* a row at another count than its default and the other deployment's rows
\* are all at its default
C24_Witness ==
    /\ Returned("update_weekly_allocation") /\ last.changed
    /\ Cardinality(deployments) = 2
    /\ \E d \in deployments, e \in deployments :
         /\ d.id # e.id
         /\ \E a \in AllocationsOf(d.id) : a.device_count # d.default_device_count
         /\ AllocationsOf(e.id) # {}
         /\ \A a \in AllocationsOf(e.id) : a.device_count = e.default_device_count

(***************************************************************************)
(* SpecUsage: two device types and two deployments; deployments are given  *)
(* another device type and device types other figures.  `last` records     *)
(* update_deployment and update_device_type.                               *)
(***************************************************************************)
Moves ==
    [device_type_ids |-> {1, 2}, deployment_ids |-> {1, 2}, project_ids |-> {1},
     counts |-> Counts, create |-> LongRange, regenerate |-> {},
     kwargs |-> {[device_type_id |-> 1], [device_type_id |-> 2]},
     devices |-> DeviceInputs, inject |-> {},
     observe |-> {"update_deployment", "update_device_type"}]

NextUsage ==
    \/ CreateDeviceType(Moves)
    \/ UpdateDeviceTypeCall(Moves)
    \/ CreateProject(Moves)
    \/ CreateDeployment(Moves)
    \/ UpdateDeploymentCall(Moves)

SpecUsage == Init /\ [][NextUsage]_vars

\* the query over every week of the window, unfiltered
WholeUsage == get_fleet_usage_by_week(MondayOf(FirstDate), LastDate, 0)

\* the rows that query joins
WholeJoin == UsageJoin(DateStr(MondayOf(FirstDate)), DateStr(LastDate), 0)

\* what a result reports as total_in_use for week w and device type t; 0
\* when it has no row for the pair
InUse(result, w, t) ==
    LET at == {i \in 1 .. Len(result) :
                 result[i].week_start = w /\ result[i].device_type_id = t}
    IN  IF at = {} THEN 0 ELSE result[CHOOSE i \in at : TRUE].total_in_use

\* C25: the query attributes the rows to the device type their deployment
\* references now and reports that device type's figures as they are now.
\* In the step in which a deployment's device_type_id changes from t1 to
\* t2, for every week of the deployment the query's total_in_use of t2
\* grows by the deployment's count of that week and that of t1 shrinks by
\* it; in the step in which a device type's row changes, the query's rows
\* for it carry its new name, total_fleet and under_repair, an unchanged
\* total_in_use, and available computed from the new figures.
C25_CurrentAttribution ==
    [][\A before \in {WholeUsage}, joined \in {WholeJoin'} :
       \A after \in {OrderBy(UsageGroups(joined))} :
         /\ \A d \in deployments, e \in deployments' :
              (d.id = e.id /\ d.device_type_id # e.device_type_id)
              => \A a \in AllocationsOf(d.id) :
                   LET moved == CountsUpTo({b \in AllocationsOf(d.id) :
                                              b.week_start = a.week_start},
                                           MaxAllocations)
                   IN  /\ InUse(after, a.week_start, e.device_type_id)
                            = InUse(before, a.week_start, e.device_type_id)
                              + moved
                       /\ InUse(after, a.week_start, d.device_type_id)
                            = InUse(before, a.week_start, d.device_type_id)
                              - moved
         /\ \A t \in device_types, u \in device_types' :
              (t.id = u.id /\ t # u)
              => \A i \in 1 .. Len(after) :
                   after[i].device_type_id = u.id
                   => /\ after[i].device_type_name = u.name
                      /\ after[i].total_fleet = u.total_fleet
                      /\ after[i].under_repair = u.under_repair
                      /\ after[i].total_in_use
                           = InUse(before, after[i].week_start, t.id)
                      /\ after[i].available
                           = u.total_fleet - u.under_repair
                             - after[i].total_in_use
    ]_vars

\* an update_deployment moved a deployment to the second device type, where
\* the other deployment is: the query has rows for that device type alone,
\* each with the sum of the two deployments' counts
C25_Witness ==
    /\ Returned("update_deployment") /\ last.changed
    /\ Cardinality(device_types) = 2
    /\ Cardinality(deployments) = 2
    /\ \A d \in deployments : d.device_type_id = 2
    /\ Len(WholeUsage) = 2
    /\ \A i \in 1 .. Len(WholeUsage) :
         /\ WholeUsage[i].device_type_id = 2
         /\ WholeUsage[i].total_in_use
              = CountsUpTo(RowsOf(WholeUsage[i].week_start, 2), MaxAllocations)
         /\ Cardinality(RowsOf(WholeUsage[i].week_start, 2)) = 2

(***************************************************************************)
(* Calls running at the same time.  Each Streamlit session runs its script *)
(* on a thread of its own, and a database call takes its own connection    *)
(* from the pool, so two calls are two transactions.  The source sets no   *)
(* isolation level: the transactions run at PostgreSQL's default, READ     *)
(* COMMITTED.  An UPDATE or DELETE finds its target rows in the snapshot   *)
(* taken when the statement starts, waits for the transactions that hold   *)
(* a lock on any of them, then changes the targets that still exist; rows  *)
(* committed after the snapshot are not among its targets.  A thread is    *)
(*   pc        idle, getconn (about to take a connection), body (about to  *)
(*             send the next statement), lock (the statement has its       *)
(*             targets and waits for their locks), except, finally         *)
(*   call      the call and its arguments                                  *)
(*   todo      the statements still to send                                *)
(*   targets   the row ids the waiting statement found                     *)
(*   del, upd  the row ids the open transaction deleted, updated (locked)  *)
(*   ins       the rows the open transaction inserted                      *)
(*   status    libpq's transaction status                                  *)
(*   held      the connections the thread has taken and not put back       *)
(***************************************************************************)
\* conn.commit()
CommitStmt == [kind |-> "commit", id |-> 0, count |-> 0, text |-> <<>>]

\* the statements a call sends, in order
Statements(call) ==
    IF call.op = "update_weekly_allocation"
    THEN << [kind |-> "UpdateAllocation", id |-> call.id, count |-> call.count,
             text |-> <<>>], CommitStmt >>
    ELSE IF call.op = "bulk_update_allocations_from"
    THEN << [kind |-> "UpdateAllocationsFrom", id |-> call.id,
             count |-> call.count, text |-> DateStr(call.start)], CommitStmt >>
    ELSE LET weeks == _week_mondays(call.start, call.end)
         IN  << [kind |-> "DeleteAllocationsOf", id |-> call.id, count |-> 0,
                 text |-> <<>>] >>
             \o [i \in 1 .. Len(weeks) |->
                    [kind |-> "InsertAllocation", id |-> call.id,
                     count |-> call.count, text |-> DateStr(weeks[i])]]
             \o << CommitStmt >>

\* the ids of the committed rows that satisfy the statement's WHERE clause
Targets(stmt) ==
    {a.id : a \in
        {b \in weekly_allocations :
            IF stmt.kind = "UpdateAllocation" THEN b.id = stmt.id
            ELSE IF stmt.kind = "UpdateAllocationsFrom"
            THEN b.deployment_id = stmt.id /\ TextLeq(stmt.text, b.week_start)
            ELSE b.deployment_id = stmt.id}}

\* the threads but th, and th replaced by the thread it has become
Others(th) == threads (-) SetToBag({th})
Becomes(th, next) == Others(th) (+) SetToBag({next})

\* the rows that the open transactions of the other threads have locked
LockedByOthers(th) == UNION {u.del \cup u.upd : u \in BagToSet(Others(th))}

\* the number of connections checked out of the pool
CheckedOut ==
    BagCardinality([th \in {u \in BagToSet(threads) : u.held > 0} |-> threads[th]])

\* the committed allocation rows once the thread's transaction commits
Committed(th) ==
    {IF a.id \in th.upd THEN [a EXCEPT !.device_count = th.call.count] ELSE a :
        a \in {b \in weekly_allocations : b.id \notin th.del}} \cup th.ins

\* conn.rollback(): the transaction's writes and locks are dropped
rollback_thread(th) ==
    [th EXCEPT !.targets = {}, !.del = {}, !.upd = {}, !.ins = {},
               !.status = "idle"]

\* the connection kept by the thread when the call raised
finally_unless_raised(th) ==
    IF th.raised THEN [IdleThread EXCEPT !.held = th.held]
    ELSE [IdleThread EXCEPT !.held = th.held - 1]

\* finally: _pool().putconn(conn); the call is over
finally(th) == [IdleThread EXCEPT !.held = th.held - 1]

\* no thread is inside a call
Quiet == threads = EmptyBag

Tabled == <<device_types, projects, deployments, last, conn, grid, usage>>

\* a thread that has entered a call
Entering(call) == [IdleThread EXCEPT !.pc = "getconn", !.call = call]

\* the rows a call inserts
Inserts(call) ==
    IF call.op = "regenerate_weekly_allocations"
    THEN Len(_week_mondays(call.start, call.end)) ELSE 0

\* a thread enters a call that draws no row id
Submit(S) ==
    /\ BagCardinality(threads) < Cardinality(S.threads)
    /\ \E call \in S.calls :
         /\ Inserts(call) = 0
         /\ threads' = threads (+) SetToBag({Entering(call)})
    /\ UNCHANGED <<Tabled, weekly_allocations, serial, expected>>

\* conn = _pool().getconn(): PoolError when maxconn connections are out, and
\* the call is over
Getconn(S) ==
    /\ \E th \in BagToSet(threads) :
         /\ th.pc = "getconn"
         /\ threads' = IF CheckedOut < maxconn
                       THEN Becomes(th, [th EXCEPT !.pc = "body", !.held = @ + 1,
                                                   !.todo = Statements(th.call)])
                       ELSE Others(th)
    /\ UNCHANGED <<Tabled, weekly_allocations, serial, expected>>

\* cur.execute(...) or conn.commit(): the next statement reaches the server
Execute(S) ==
    \E th \in BagToSet(threads) :
      LET stmt == Head(th.todo)
          id == serial.weekly_allocations + 1
          row == [id |-> id, deployment_id |-> stmt.id, week_start |-> stmt.text,
                  device_count |-> stmt.count]
      IN  /\ th.pc = "body"
          /\ IF stmt.kind = "commit"
             THEN /\ weekly_allocations' = Committed(th)
                  /\ threads' = Becomes(th, [rollback_thread(th) EXCEPT
                                               !.todo = <<>>, !.pc = "finally"])
                  /\ UNCHANGED serial
             ELSE IF stmt.kind = "InsertAllocation"
             THEN /\ serial' = [serial EXCEPT !.weekly_allocations = id]
                  /\ threads' = Becomes(th,
                       IF Exists(deployments, stmt.id)
                       THEN [th EXCEPT !.ins = @ \cup {row},
                                       !.status = "intrans", !.todo = Tail(@)]
                       ELSE [th EXCEPT !.status = "inerror", !.raised = TRUE,
                                       !.pc = "except"])
                  /\ UNCHANGED weekly_allocations
             ELSE /\ threads' = Becomes(th, [th EXCEPT !.targets = Targets(stmt),
                                                       !.pc = "lock"])
                  /\ UNCHANGED <<weekly_allocations, serial>>
          /\ UNCHANGED <<Tabled, expected>>

\* the UPDATE or DELETE has the locks of its targets: it changes those that
\* are still there
Lock(S) ==
    /\ \E th \in BagToSet(threads) :
         LET live == th.targets \cap {a.id : a \in weekly_allocations}
         IN  /\ th.pc = "lock"
             /\ th.targets \cap LockedByOthers(th) = {}
             /\ threads' = Becomes(th,
                  IF Head(th.todo).kind = "DeleteAllocationsOf"
                  THEN [th EXCEPT !.del = live, !.targets = {},
                                  !.status = "intrans",
                                  !.todo = Tail(@), !.pc = "body"]
                  ELSE [th EXCEPT !.upd = live, !.targets = {},
                                  !.status = "intrans",
                                  !.todo = Tail(@), !.pc = "body"])
    /\ UNCHANGED <<Tabled, weekly_allocations, serial, expected>>

\* a statement or the commit raises in the client
Fail(S) ==
    /\ S.inject # {}
    /\ \E th \in BagToSet(threads) :
         /\ th.pc \in {"body", "lock"}
         /\ threads' = Becomes(th, [th EXCEPT !.raised = TRUE, !.pc = "except"])
    /\ UNCHANGED <<Tabled, weekly_allocations, serial, expected>>

\* except Exception: conn.rollback(); raise
Except(S) ==
    /\ \E th \in BagToSet(threads) :
         /\ th.pc = "except"
         /\ threads' = Becomes(th, [rollback_thread(th) EXCEPT !.pc = "finally"])
    /\ UNCHANGED <<Tabled, weekly_allocations, serial, expected>>

\* finally: _pool().putconn(conn); the thread is outside the call, and is
\* kept on record only if it still holds a connection
Finally(S) ==
    /\ \E th \in BagToSet(threads) :
         /\ th.pc = "finally"
         /\ threads' = IF finally(th) = IdleThread THEN Others(th)
                       ELSE Becomes(th, finally(th))
    /\ UNCHANGED <<Tabled, weekly_allocations, serial, expected>>

(***************************************************************************)
(* SpecPool: one thread more than the pool has connections, each calling   *)
(* bulk_update_allocations_from on the one deployment; any statement and   *)
(* the commit may raise.  The rows are created while no thread is inside a *)
(* call.                                                                   *)
(***************************************************************************)
Pool ==
    [threads |-> Threads,
     calls |-> {[op |-> "bulk_update_allocations_from", id |-> 1, count |-> 5,
                 start |-> FirstDate, end |-> 0]},
     device_type_ids |-> {1}, deployment_ids |-> {1}, project_ids |-> {1},
     counts |-> Counts, create |-> {<<FirstDate, FirstDate>>},
     regenerate |-> {}, kwargs |-> {}, devices |-> {<< <<77>>, 10, 1 >>},
     inject |-> {"threads"}, observe |-> {}]

NextPool ==
    \/ Quiet /\ CreateDeviceType(Pool)
    \/ Quiet /\ CreateProject(Pool)
    \/ Quiet /\ CreateDeployment(Pool)
    \/ Submit(Pool)
    \/ Getconn(Pool)
    \/ Execute(Pool)
    \/ Lock(Pool)
    \/ Fail(Pool)
    \/ Except(Pool)
    \/ Finally(Pool)

SpecPool == Init /\ [][NextPool]_vars

\* C23: a thread holds one connection from getconn to putconn and none
\* outside a call; the connection is put back by the step that ends the
\* call, one connection at a step, with the transaction committed or rolled
\* back and nothing of it left; no more than maxconn connections are out,
\* and none when no call is running.
C23_PoolReleased ==
    /\ [](/\ CheckedOut <= maxconn
          /\ \A th \in BagToSet(threads) :
               /\ th.held \in {0, 1}
               /\ th.held = 1 <=> th.pc \in {"body", "lock", "except", "finally"}
               /\ th.pc # "idle"
               /\ th.pc = "finally"
                    => /\ th.status = "idle"
                       /\ th.del = {} /\ th.upd = {} /\ th.ins = {}
          /\ Quiet => CheckedOut = 0)
    /\ [][CheckedOut' < CheckedOut
            => /\ CheckedOut' = CheckedOut - 1
               /\ \E th \in BagToSet(threads) :
                    th.pc = "finally" /\ threads' = Others(th)]_vars

\* five connections are out, the transaction of one thread has raised and is
\* rolled back, and the sixth thread is about to ask for a connection
C23_Witness ==
    /\ CheckedOut = maxconn
    /\ \E th \in BagToSet(threads) : th.pc = "finally" /\ th.raised
    /\ \E th \in BagToSet(threads) : th.pc = "getconn"
    /\ weekly_allocations # {}

(***************************************************************************)
(* SpecConcurrent: two operators each make one call on the one deployment  *)
(* at the same time, on a connection each.  `expected` holds what the two  *)
(* calls leave when one runs after the other, in either order.             *)
(***************************************************************************)
\* the statements of a call, sent on connection st
InTransaction(st, call) ==
    IF call.op = "update_weekly_allocation"
    THEN UpdateAllocation(st, call.id, call.count)
    ELSE IF call.op = "bulk_update_allocations_from"
    THEN UpdateAllocationsFrom(st, call.id, call.count, DateStr(call.start))
    ELSE InsertWeeks(DeleteAllocationsOf(st, call.id), call.id,
                     _week_mondays(call.start, call.end), call.count)

\* the pooled connection as a call that is over has left it
ConnAfter(st) ==
    [db |-> st.committed, status |-> "idle", committed |-> st.committed,
     serial |-> st.serial, raised |-> FALSE, n |-> 0, failAt |-> 0, ret |-> 0]

\* the allocation rows once `first` has run and then `second`
OneAfterTheOther(first, second) ==
    LET s1 == get_connection(commit(InTransaction(getconn(0), first)))
        s2 == get_connection(commit(InTransaction(ConnAfter(s1), second)))
    IN  s2.committed.weekly_allocations

\* rows without their ids
Shape(rows) == {<<a.deployment_id, a.week_start, a.device_count>> : a \in rows}

Pair ==
    [threads |-> {1, 2},
     calls |-> {[op |-> "update_weekly_allocation", id |-> 1, count |-> 5,
                 start |-> 0, end |-> 0],
                [op |-> "update_weekly_allocation", id |-> 2, count |-> 3,
                 start |-> 0, end |-> 0],
                [op |-> "bulk_update_allocations_from", id |-> 1, count |-> 5,
                 start |-> FirstDate, end |-> 0],
                [op |-> "bulk_update_allocations_from", id |-> 1, count |-> 3,
                 start |-> FirstDate + DateStep, end |-> 0],
                [op |-> "regenerate_weekly_allocations", id |-> 1, count |-> 3,
                 start |-> FirstDate, end |-> FirstDate],
                [op |-> "regenerate_weekly_allocations", id |-> 1, count |-> 5,
                 start |-> FirstDate, end |-> FirstDate]},
     device_type_ids |-> {1}, deployment_ids |-> {1}, project_ids |-> {1},
     counts |-> Counts, create |-> LongRange, regenerate |-> {}, kwargs |-> {},
     devices |-> {<< <<77>>, 10, 1 >>}, inject |-> {}, observe |-> {}]

\* two operators each start a call
Operators(S) ==
    /\ Quiet
    /\ \E first \in S.calls, second \in S.calls :
         /\ serial.weekly_allocations + Inserts(first) + Inserts(second)
                <= MaxAllocations
         /\ threads' = SetToBag({Entering(first)}) (+) SetToBag({Entering(second)})
         /\ expected' = {Shape(OneAfterTheOther(first, second)),
                         Shape(OneAfterTheOther(second, first))}
    /\ UNCHANGED <<Tabled, weekly_allocations, serial>>

NextConcurrent ==
    \/ expected = {} /\ CreateDeviceType(Pair)
    \/ expected = {} /\ CreateProject(Pair)
    \/ expected = {} /\ CreateDeployment(Pair)
    \/ Operators(Pair)
    \/ Getconn(Pair)
    \/ Execute(Pair)
    \/ Lock(Pair)
    \/ Except(Pair)
    \/ Finally(Pair)

SpecConcurrent == Init /\ [][NextConcurrent]_vars

\* C22: once two calls that ran at the same time on a deployment are both
\* over, the committed allocation rows are those that the two calls leave
\* when one runs after the other, in one order or the other, and no two
\* rows have the same deployment and week.
C22_LastWriterWins ==
    (Quiet /\ expected # {})
    => /\ Shape(weekly_allocations) \in expected
       /\ \A a \in weekly_allocations, b \in weekly_allocations :
            (a.deployment_id = b.deployment_id /\ a.week_start = b.week_start)
            => a = b

\* two regenerations that ran at the same time are over, and the deployment
\* has a row of each for the same week
C22_BothRegenerated ==
    /\ Quiet /\ expected # {}
    /\ \E a \in weekly_allocations, b \in weekly_allocations :
         /\ a.id # b.id
         /\ a.deployment_id = b.deployment_id
         /\ a.week_start = b.week_start
         /\ a.device_count = 3 /\ b.device_count = 5

====
